---------------------------- MODULE Spec2Model ----------------------------
(***************************************************************************)
(* Chrome version proxy (src/main.go): the request handler                 *)
(* getChromeVersions, the TTL cache (Cache.Get / Cache.Set and the         *)
(* counters and upstream-health fields it guards with one sync.RWMutex),   *)
(* the hourly reaper cleanupExpiredCache and the /health handler.          *)
(*                                                                         *)
(* Strings the program parses or formats (version strings, the offset      *)
(* parameter, VERSION_OFFSET, the cache key) are sequences of one-         *)
(* character strings, so strconv.Atoi, strings.Split and fmt.Sprintf are   *)
(* computed character by character.  Time is counted in hours.             *)
(***************************************************************************)
EXTENDS Integers, Sequences, FiniteSets, TLC

(***************************************************************************)
(* Bounds of the model.                                                    *)
(***************************************************************************)
\* concurrent request handlers (goroutines serving /api/chrome/version)
NumReq == 2
\* requests served in one behaviour (caps hits, misses and the histories)
MaxRequests == 3
\* requests served in one behaviour when they come one after the other
MaxSeqRequests == 2
\* clock advances in one behaviour
MaxTicks == 1

(***************************************************************************)
(* Program constants.                                                      *)
(***************************************************************************)
\* const cacheTTL = 24 * time.Hour
cacheTTL == 24
\* time.NewTicker(1 * time.Hour)
TickerPeriod == 1
\* getVersionOffset / getVersionOffsetInt: the default "10" / 10
DefaultOffset == 10

(***************************************************************************)
(* strconv.Atoi, fmt.Sprintf("%d"), strings.Split on character sequences.  *)
(***************************************************************************)
DigitChars == <<"0", "1", "2", "3", "4", "5", "6", "7", "8", "9">>

IsDigit(c) == \E i \in 1..10 : DigitChars[i] = c

DigitVal(c) == (CHOOSE i \in 1..10 : DigitChars[i] = c) - 1

RECURSIVE DigitsVal(_)
\* the value of a non-empty all-digit sequence
DigitsVal(s) ==
    IF Len(s) = 0 THEN 0
    ELSE DigitsVal(SubSeq(s, 1, Len(s) - 1)) * 10 + DigitVal(s[Len(s)])

\* strconv.Atoi: an optional sign, then one or more decimal digits; anything
\* else is a syntax error, for which Atoi returns 0 and the error.  The inputs
\* of the model are short numerals, so the range error is not reached.
Atoi(s) ==
    LET signed == Len(s) > 0 /\ s[1] \in {"+", "-"}
        body   == IF signed THEN Tail(s) ELSE s
        ok     == Len(body) > 0 /\ \A i \in 1..Len(body) : IsDigit(body[i])
    IN  IF ~ok THEN [val |-> 0, err |-> TRUE]
        ELSE [val |-> IF signed /\ s[1] = "-" THEN 0 - DigitsVal(body)
                      ELSE DigitsVal(body),
              err |-> FALSE]

RECURSIVE NatDigits(_)
NatDigits(n) ==
    IF n < 10 THEN <<DigitChars[n + 1]>>
    ELSE NatDigits(n \div 10) \o <<DigitChars[(n % 10) + 1]>>

\* the verb %d of fmt.Sprintf
Itoa(n) == IF n < 0 THEN <<"-">> \o NatDigits(0 - n) ELSE NatDigits(n)

RECURSIVE Split(_)
\* strings.Split(version, "."): never empty, Split("") = [""]
Split(s) ==
    IF \A i \in 1..Len(s) : s[i] # "." THEN <<s>>
    ELSE LET d == CHOOSE i \in 1..Len(s) :
                     s[i] = "." /\ \A j \in 1..(i - 1) : s[j] # "."
         IN  <<SubSeq(s, 1, d - 1)>> \o Split(SubSeq(s, d + 1, Len(s)))

(***************************************************************************)
(* The pure functions of main.go.                                          *)
(***************************************************************************)
\* major, _ := strconv.Atoi(parts[0]): the error is dropped, so a malformed
\* first component gives 0
extractMajor(version) ==
    LET parts == Split(version)
    IN  IF Len(parts) = 0 THEN 0 ELSE Atoi(parts[1]).val

\* a plausible slip: the last match instead of the first
findFirstVersionWithMajor_last(versions, targetMajor) ==
    IF \E i \in 1..Len(versions) : extractMajor(versions[i]) = targetMajor
    THEN versions[CHOOSE i \in 1..Len(versions) :
                      /\ extractMajor(versions[i]) = targetMajor
                      /\ \A j \in (i + 1)..Len(versions) :
                             extractMajor(versions[j]) # targetMajor]
    ELSE <<>>

\* returns the first v.Version whose major is targetMajor, "" when none is
findFirstVersionWithMajor(versions, targetMajor) ==
    IF \E i \in 1..Len(versions) : extractMajor(versions[i]) = targetMajor
    THEN versions[CHOOSE i \in 1..Len(versions) :
                      /\ extractMajor(versions[i]) = targetMajor
                      /\ \A j \in 1..(i - 1) :
                             extractMajor(versions[j]) # targetMajor]
    ELSE <<>>

ValidPlatforms == {"win", "win64", "mac", "mac_arm64", "linux"}

isValidPlatform(platform) == platform \in ValidPlatforms

\* os.Getenv("VERSION_OFFSET"), "10" when it is empty
getVersionOffset(env) == IF env = <<>> THEN Itoa(DefaultOffset) ELSE env

\* a plausible slip: only the parse error is tested, a negative value is kept
getVersionOffsetInt_allowsNegative(env) ==
    LET a == Atoi(getVersionOffset(env))
    IN  IF a.err THEN DefaultOffset ELSE a.val

getVersionOffsetInt(env) ==
    LET a == Atoi(getVersionOffset(env))
    IN  IF a.err \/ a.val < 0 THEN DefaultOffset ELSE a.val

\* a plausible slip: an unparsable parameter falls back to the default
getOffsetFromRequest_fallback(offsetParam, env) ==
    IF offsetParam # <<>> /\ ~Atoi(offsetParam).err
    THEN Atoi(offsetParam).val
    ELSE getVersionOffsetInt(env)

getOffsetFromRequest(offsetParam, env) ==
    IF offsetParam # <<>>
    THEN IF Atoi(offsetParam).err THEN -1 ELSE Atoi(offsetParam).val
    ELSE getVersionOffsetInt(env)

\* the characters of a platform name
Chars(platform) ==
    CASE platform = "win" -> <<"w", "i", "n">>
      [] platform = "win64" -> <<"w", "i", "n", "6", "4">>
      [] platform = "mac" -> <<"m", "a", "c">>
      [] platform = "mac_arm64" ->
             <<"m", "a", "c", "_", "a", "r", "m", "6", "4">>
      [] platform = "linux" -> <<"l", "i", "n", "u", "x">>
      [] platform = "vista" -> <<"v", "i", "s", "t", "a">>
      [] OTHER -> <<>>

\* a plausible slip: the separator is left out of the format ("%s%d")
CacheKeyOf_noSeparator(platform, offset) == Chars(platform) \o Itoa(offset)

\* fmt.Sprintf("%s:%d", platform, offset)
CacheKeyOf(platform, offset) == Chars(platform) \o <<":">> \o Itoa(offset)

\* fmt.Sprintf("%d.0.0.0", supportedMajor)
Synthetic(supportedMajor) ==
    Itoa(supportedMajor) \o <<".", "0", ".", "0", ".", "0">>

\* VersionResponse{}
ZeroResponse ==
    [Latest |-> <<>>, LatestAccepted |-> <<>>, Channel |-> "", Platform |-> ""]

\* a plausible slip: with no element of the target major, the latest version
\* is given as the accepted one
BuildResponse_latestAsAccepted(platform, offset, versions) ==
    LET latest         == versions[1]
        latestMajor    == extractMajor(latest)
        supportedMajor == latestMajor - offset
        found          == findFirstVersionWithMajor(versions, supportedMajor)
    IN  [Latest         |-> latest,
         LatestAccepted |-> IF found = <<>> THEN latest ELSE found,
         Channel        |-> "stable",
         Platform       |-> platform]

\* lines 179-203 of getChromeVersions, for a non-empty list
BuildResponse(platform, offset, versions) ==
    LET latest         == versions[1]
        latestMajor    == extractMajor(latest)
        supportedMajor == latestMajor - offset
        found          == findFirstVersionWithMajor(versions, supportedMajor)
    IN  [Latest         |-> latest,
         LatestAccepted |-> IF found = <<>> THEN Synthetic(supportedMajor)
                            ELSE found,
         Channel        |-> "stable",
         Platform       |-> platform]

(***************************************************************************)
(* Inputs: what a client, the environment and the upstream can supply.     *)
(***************************************************************************)
\* the platform query parameter; "" is an absent parameter
PlatformParams == {"", "win64", "mac", "vista"}

\* the offset query parameter, as r.URL.Query().Get returns it; <<>> is an
\* absent parameter (or one with no value, which Get does not tell apart)
OffsetParams == {<<>>, <<"1">>, <<"2">>, <<"x">>, <<"-", "1">>}

\* VERSION_OFFSET; <<>> is an unset variable
EnvValues == {<<>>, <<"0">>, <<"x">>}

\* VERSION_OFFSET: unset, valid (0 and 2), non-numeric and negative
AllEnvValues == EnvValues \cup {<<"2">>, <<"-", "1">>}

V31 == <<"3", ".", "1">>
V21 == <<"2", ".", "1">>
V20 == <<"2", ".", "0">>
V10 == <<"1", ".", "0">>
V05 == <<"0", ".", "5">>
Vx1 == <<"x", ".", "1">>
Vempty == <<>>

\* version lists an upstream response can carry (apiResponse.Versions)
VersionLists ==
    { <<>>, <<V31, V21, V20>>, <<V10, Vx1>>, <<V10, Vempty, V05>> }

\* the inputs of the specifications that interleave several handlers: the
\* default platform and offset (one cache key), two releases of the upstream
SomePlatformParams == {""}
SomeOffsetParams == {<<>>}
SomeVersionLists == { <<>>, <<V31, V21, V20>>, <<V10, Vx1>> }

\* err.Error() of a failed NewService and of a failed call.Do
ErrNewService == "new service failed"
ErrDo == "transport failed"

Reqs == 1..NumReq
Pid(r) == <<"req", r>>
HealthPid == <<"health", 0>>
ReaperPid == <<"reaper", 0>>

\* time.Time{}: the zero time, for which IsZero() holds
ZeroTime == [set |-> FALSE, t |-> 0]
TimeAt(t) == [set |-> TRUE, t |-> t]

\* what a read that races with a write can see besides the old and the new
\* value: words of both (a time.Time is three words, a string two)
TornTime == [set |-> TRUE, t |-> -1]
TornString == "torn"

VARIABLES
    entries,       \* cache.entries: key -> [Response, ExpiresAt]
    hits,          \* cache.hits
    misses,        \* cache.misses
    lastAPICall,   \* cache.lastAPICall
    lastAPIError,  \* cache.lastAPIError
    apiHealthy,    \* cache.apiHealthy
    mu,            \* cache.mu: who holds the write lock, who holds a read lock
    now,           \* time.Now(), in hours since the process started
    ticks,         \* clock advances so far
    env,           \* VERSION_OFFSET of the process
    req,           \* the request handlers in flight: position and locals
    started,       \* requests accepted so far
    out,           \* the response a request handler wrote last
    health,        \* the /health handler: position, locals, response
    reaper,        \* cleanupExpiredCache: position, ticker.C (one slot), and
                   \* its local count
    hist           \* history: the upstream outcome recorded last (outcome) and
                   \* whether a failure ever was (failed), the fresh responses
                   \* written (fresh), the number of Sets per key (sets), how
                   \* the last request of each key ended (lastDone), the
                   \* versions the upstream returned per platform (returned)
                   \* and the lists it returned them in (responses),
                   \* and how many requests looked a key up (lookups), were
                   \* answered from the cache (fromCache) and attempted the
                   \* upstream call (attempts)

vars == <<entries, hits, misses, lastAPICall, lastAPIError, apiHealthy, mu,
          now, ticks, env, req, started, out, health, reaper, hist>>

store == <<entries, hits, misses, lastAPICall, lastAPIError, apiHealthy>>

healthState == <<apiHealthy, lastAPICall, lastAPIError>>

(***************************************************************************)
(* sync.RWMutex.  A critical section takes two steps: the acquisition, and *)
(* the body with the deferred release.                                     *)
(***************************************************************************)
CanLock == mu.writer = {} /\ mu.readers = {}
CanRLock == mu.writer = {}
Lock(p) == [mu EXCEPT !.writer = {p}]
Unlock(p) == [mu EXCEPT !.writer = @ \ {p}]
RLock(p) == [mu EXCEPT !.readers = @ \cup {p}]
RUnlock(p) == [mu EXCEPT !.readers = @ \ {p}]

\* f with key k set to v
Put(f, k, v) == [x \in DOMAIN f \cup {k} |-> IF x = k THEN v ELSE f[x]]

\* how many times Set has stored under this key
SetsOf(key) == IF key \in DOMAIN hist.sets THEN hist.sets[key] ELSE 0

\* latest and latest_accepted of a response
Pair(response) == <<response.Latest, response.LatestAccepted>>

\* history of a lookup: nothing looked up yet
NoSeen ==
    [at |-> 0, present |-> FALSE, exp |-> 0, sets |-> 0, prior |-> {},
     afterFail |-> FALSE, failSets |-> 0]

\* the locals of a handler, the response it writes (code, error, response),
\* and history: what the handler did (outcome, calls) and what was true when
\* it looked the key up (seen) and just before it recorded the upstream
\* outcome (healthyBefore)
IdleReq ==
    [pc |-> "idle", platformParam |-> "", offsetParam |-> <<>>,
     platform |-> "", offset |-> 0, cacheKey |-> <<>>,
     versions |-> <<>>, err |-> "", response |-> ZeroResponse,
     code |-> 0, error |-> "", outcome |-> "", calls |-> 0,
     seen |-> NoSeen, healthyBefore |-> TRUE]

IdleHealth ==
    [pc |-> "idle", stats |-> [total |-> 0, active |-> 0, expired |-> 0,
                               hitRate |-> <<>>],
     status |-> "", apiStatus |-> "", lastCall |-> ZeroTime,
     lastError |-> "", code |-> 0]

Start ==
    /\ entries = <<>>
    /\ hits = 0
    /\ misses = 0
    /\ lastAPICall = ZeroTime
    /\ lastAPIError = ""
    /\ apiHealthy = TRUE
    /\ mu = [writer |-> {}, readers |-> {}]
    /\ now = 0
    /\ ticks = 0
    /\ req = [r \in Reqs |-> IdleReq]
    /\ started = 0
    /\ out = IdleReq
    /\ health = IdleHealth
    /\ reaper = [pc |-> "wait", tick |-> FALSE, count |-> 0]
    /\ hist = [outcome |-> "none", failed |-> FALSE, fresh |-> {},
               sets |-> <<>>, lastDone |-> <<>>, returned |-> <<>>,
               responses |-> {},
               lookups |-> 0, fromCache |-> 0, attempts |-> 0]

\* VERSION_OFFSET is not set
Init == Start /\ env = <<>>

\* VERSION_OFFSET is unset, set to a number, or set to something else
InitSeq == Start /\ env \in EnvValues

\* the process is started with any VERSION_OFFSET
InitOffset == Start /\ env \in AllEnvValues

(***************************************************************************)
(* The cache operations, as functions of the store and the clock.          *)
(***************************************************************************)
NotFound == [value |-> ZeroResponse, found |-> FALSE]

\* a plausible slip: !time.Now().Before(entry.ExpiresAt), which also drops
\* the entry at the instant of its expiry
CacheGet_notBefore(key) ==
    IF key \in DOMAIN entries /\ now < entries[key].ExpiresAt
    THEN [value |-> entries[key].Response, found |-> TRUE]
    ELSE [value |-> ZeroResponse, found |-> FALSE]

\* a plausible slip: the expiry is not tested
CacheGet_ignoresExpiry(key) ==
    IF key \in DOMAIN entries
    THEN [value |-> entries[key].Response, found |-> TRUE]
    ELSE [value |-> ZeroResponse, found |-> FALSE]

\* Cache.Get, lines 287-297: time.Now().After(entry.ExpiresAt) is now > expiry
CacheGet(key) ==
    IF key \notin DOMAIN entries THEN NotFound
    ELSE IF now > entries[key].ExpiresAt THEN NotFound
    ELSE [value |-> entries[key].Response, found |-> TRUE]

\* a plausible slip: the TTL is left out of the expiry
CacheSet_noTTL(key, response) ==
    [k \in DOMAIN entries \cup {key} |->
        IF k = key
        THEN [Response |-> response, ExpiresAt |-> now]
        ELSE entries[k]]

\* a plausible slip: the Response field is left out of the CacheEntry literal
CacheSet_zeroValue(key, response) ==
    [k \in DOMAIN entries \cup {key} |->
        IF k = key
        THEN [Response |-> ZeroResponse, ExpiresAt |-> now + cacheTTL]
        ELSE entries[k]]

\* a plausible slip: an entry that is replaced keeps its expiry
CacheSet_keepsExpiry(key, response) ==
    [k \in DOMAIN entries \cup {key} |->
        IF k = key
        THEN [Response  |-> response,
              ExpiresAt |-> IF key \in DOMAIN entries
                            THEN entries[key].ExpiresAt
                            ELSE now + cacheTTL]
        ELSE entries[k]]

\* a plausible slip: an entry that is there is kept (first writer wins)
CacheSet_keepsFirst(key, response) ==
    [k \in DOMAIN entries \cup {key} |->
        IF k \in DOMAIN entries THEN entries[k]
        ELSE [Response |-> response, ExpiresAt |-> now + cacheTTL]]

\* Cache.Set, lines 305-308: the entries after c.entries[key] = CacheEntry{...}
CacheSet(key, response) ==
    [k \in DOMAIN entries \cup {key} |->
        IF k = key
        THEN [Response |-> response, ExpiresAt |-> now + cacheTTL]
        ELSE entries[k]]

\* a plausible slip: !now.Before(entry.ExpiresAt), which also removes an
\* entry at the instant of its expiry
Sweep_notBefore ==
    [k \in {x \in DOMAIN entries : now < entries[x].ExpiresAt} |->
        entries[k]]

\* a plausible slip: the expired entries are counted and not deleted
Sweep_countsOnly == entries

\* cleanupExpiredCache, lines 318-325: the entries after one sweep
Sweep ==
    [k \in {x \in DOMAIN entries : ~(now > entries[x].ExpiresAt)} |->
        entries[k]]

\* a plausible slip: the time and the error text are set, the flag stays
RecordAPISuccess_keepsFlag ==
    [lastAPICall |-> TimeAt(now), apiHealthy |-> apiHealthy,
     lastAPIError |-> ""]

\* a plausible slip: only the flag is set, the time and the error text stay
RecordAPISuccess_flagOnly ==
    [lastAPICall |-> lastAPICall, apiHealthy |-> TRUE,
     lastAPIError |-> lastAPIError]

\* recordAPISuccess, lines 401-403
RecordAPISuccess ==
    [lastAPICall |-> TimeAt(now), apiHealthy |-> TRUE, lastAPIError |-> ""]

\* recordAPIError, lines 410-412
RecordAPIError(err) ==
    [lastAPICall |-> TimeAt(now), apiHealthy |-> FALSE, lastAPIError |-> err]

\* float64(c.hits) / float64(total) * 100 with two decimals ("%.2f%%"), in
\* hundredths of a percent; <<>> is the omitted field
HitRateOf(h, m) ==
    LET total == h + m
    IN  IF total > 0 THEN <<(h * 20000 + total) \div (2 * total)>>
        ELSE <<>>

\* a plausible slip: the digits after the second decimal are cut off
HitRate_truncated ==
    IF hits + misses > 0 THEN <<(hits * 10000) \div (hits + misses)>>
    ELSE <<>>

\* lines 456-460, on the counters of the store
HitRate == HitRateOf(hits, misses)

\* a plausible slip: two independent tests, so that an entry at the instant
\* of its expiry is counted as active and as expired
GetStats_countsTwice ==
    LET active  == {k \in DOMAIN entries : now <= entries[k].ExpiresAt}
        expired == {k \in DOMAIN entries : now >= entries[k].ExpiresAt}
    IN  [total   |-> Cardinality(DOMAIN entries),
         active  |-> Cardinality(active),
         expired |-> Cardinality(expired),
         hitRate |-> HitRate]

\* getStats, lines 437-462
GetStats ==
    LET active  == {k \in DOMAIN entries : now < entries[k].ExpiresAt}
        expired == DOMAIN entries \ active
    IN  [total   |-> Cardinality(DOMAIN entries),
         active  |-> Cardinality(active),
         expired |-> Cardinality(expired),
         hitRate |-> HitRate]

(***************************************************************************)
(* getChromeVersions.  A handler that has written its response leaves it   *)
(* in out and its goroutine ends.                                          *)
(***************************************************************************)
\* lines 101-127: the parameters, the two validations, the cache key.  The
\* goroutines are interchangeable: a request takes the first free one.
ReqArrive(r, pp, op) ==
    /\ req[r].pc = "idle"
    /\ \A q \in Reqs : q < r => req[q].pc # "idle"
    /\ started < MaxRequests
    /\ started' = started + 1
    /\ LET platform == IF pp = "" THEN "win64" ELSE pp
           offset   == getOffsetFromRequest(op, env)
           in       == [IdleReq EXCEPT !.platformParam = pp,
                                       !.offsetParam = op]
       IN  IF ~isValidPlatform(platform)
           THEN /\ out' = [in EXCEPT !.pc = "done", !.code = 400,
                                     !.error = "Invalid platform"]
                /\ req' = req
           ELSE IF offset < 0
           THEN /\ out' = [in EXCEPT !.pc = "done", !.code = 400,
                                     !.platform = platform,
                                     !.error = "Offset must be a number >= 0"]
                /\ req' = req
           ELSE /\ req' = [req EXCEPT ![r] =
                       [in EXCEPT !.pc = "Get", !.platform = platform,
                                  !.offset = offset,
                                  !.cacheKey = CacheKeyOf(platform, offset)]]
                /\ out' = out
    /\ UNCHANGED <<store, mu, now, ticks, env, health, reaper, hist>>

\* line 128, Cache.Get: c.mu.RLock()
ReqGetRLock(r) ==
    /\ req[r].pc = "Get"
    /\ CanRLock
    /\ mu' = RLock(Pid(r))
    /\ req' = [req EXCEPT ![r].pc = "Get_cs"]
    /\ UNCHANGED <<store, now, ticks, env, started, out, health, reaper, hist>>

\* a plausible slip: an explicit RUnlock on the not-found paths only, so a
\* handler that found its entry still holds the read lock
ReqGet_keepsRLock(r) ==
    /\ req[r].pc = "Get_cs"
    /\ mu' = IF CacheGet(req[r].cacheKey).found THEN mu ELSE RUnlock(Pid(r))
    /\ req' = [req EXCEPT ![r] =
               IF CacheGet(req[r].cacheKey).found
               THEN [@ EXCEPT !.pc = "recordHit",
                              !.response = CacheGet(req[r].cacheKey).value]
               ELSE [@ EXCEPT !.pc = "recordMiss"]]
    /\ hist' = [hist EXCEPT !.lookups = @ + 1]
    /\ UNCHANGED <<store, now, ticks, env, started, out, health, reaper>>

\* lines 287-297 and the deferred RUnlock
ReqGet(r) ==
    /\ req[r].pc = "Get_cs"
    /\ mu' = RUnlock(Pid(r))
    /\ LET key  == req[r].cacheKey
           got  == CacheGet(key)
           last == IF key \in DOMAIN hist.lastDone THEN hist.lastDone[key]
                   ELSE [outcome |-> "", sets |-> 0]
           saw  == [at        |-> now,
                    present   |-> key \in DOMAIN entries,
                    exp       |-> IF key \in DOMAIN entries
                                  THEN entries[key].ExpiresAt ELSE 0,
                    sets      |-> SetsOf(key),
                    prior     |-> {[pair |-> f.pair, n |-> f.n] :
                                      f \in {g \in hist.fresh :
                                                g.key = key /\ now < g.exp}},
                    afterFail |-> last.outcome = "error",
                    failSets  |-> last.sets]
       IN  req' = [req EXCEPT ![r] =
               IF got.found
               THEN [@ EXCEPT !.pc = "recordHit", !.response = got.value,
                              !.seen = saw]
               ELSE [@ EXCEPT !.pc = "recordMiss", !.seen = saw]]
    /\ hist' = [hist EXCEPT !.lookups = @ + 1]
    /\ UNCHANGED <<store, now, ticks, env, started, out, health, reaper>>

\* line 129, recordHit: c.mu.Lock()
ReqRecordHitLock(r) ==
    /\ req[r].pc = "recordHit"
    /\ CanLock
    /\ mu' = Lock(Pid(r))
    /\ req' = [req EXCEPT ![r].pc = "recordHit_cs"]
    /\ UNCHANGED <<store, now, ticks, env, started, out, health, reaper, hist>>

\* a plausible slip: the return of line 133 is missing, so the handler goes
\* on to recordMiss after it has answered
ReqRecordHit_countsMiss(r) ==
    /\ req[r].pc = "recordHit_cs"
    /\ mu' = Unlock(Pid(r))
    /\ hits' = hits + 1
    /\ misses' = misses + 1
    /\ out' = [req[r] EXCEPT !.pc = "done", !.code = 200, !.outcome = "hit"]
    /\ req' = [req EXCEPT ![r] = IdleReq]
    /\ hist' = [hist EXCEPT !.fromCache = @ + 1,
                            !.lastDone = Put(@, req[r].cacheKey,
                     [outcome |-> "hit", sets |-> req[r].seen.sets])]
    /\ UNCHANGED <<entries, healthState, now, ticks, env, started, health,
                   reaper>>

\* a plausible slip: a hit renews the entry (a sliding expiry)
ReqRecordHit_renews(r) ==
    /\ req[r].pc = "recordHit_cs"
    /\ mu' = Unlock(Pid(r))
    /\ hits' = hits + 1
    /\ entries' = IF req[r].cacheKey \in DOMAIN entries
                  THEN CacheSet(req[r].cacheKey, req[r].response)
                  ELSE entries
    /\ out' = [req[r] EXCEPT !.pc = "done", !.code = 200, !.outcome = "hit"]
    /\ req' = [req EXCEPT ![r] = IdleReq]
    /\ hist' = [hist EXCEPT !.fromCache = @ + 1,
                            !.lastDone = Put(@, req[r].cacheKey,
                     [outcome |-> "hit", sets |-> req[r].seen.sets])]
    /\ UNCHANGED <<misses, healthState, now, ticks, env, started, health,
                   reaper>>

\* c.hits++, the deferred Unlock, and lines 130-133: 200 with the cached value
ReqRecordHit(r) ==
    /\ req[r].pc = "recordHit_cs"
    /\ mu' = Unlock(Pid(r))
    /\ hits' = hits + 1
    /\ out' = [req[r] EXCEPT !.pc = "done", !.code = 200, !.outcome = "hit"]
    /\ req' = [req EXCEPT ![r] = IdleReq]
    /\ hist' = [hist EXCEPT !.fromCache = @ + 1,
                            !.lastDone = Put(@, req[r].cacheKey,
                     [outcome |-> "hit", sets |-> req[r].seen.sets])]
    /\ UNCHANGED <<entries, misses, healthState, now, ticks, env, started,
                   health, reaper>>

\* line 136, recordMiss: c.mu.Lock()
ReqRecordMissLock(r) ==
    /\ req[r].pc = "recordMiss"
    /\ CanLock
    /\ mu' = Lock(Pid(r))
    /\ req' = [req EXCEPT ![r].pc = "recordMiss_cs"]
    /\ UNCHANGED <<store, now, ticks, env, started, out, health, reaper, hist>>

\* a plausible slip: the Unlock is missing, the lock is held over the call
ReqRecordMiss_keepsLock(r) ==
    /\ req[r].pc = "recordMiss_cs"
    /\ mu' = mu
    /\ misses' = misses + 1
    /\ req' = [req EXCEPT ![r].pc = "call"]
    /\ UNCHANGED <<entries, hits, healthState, now, ticks, env, started, out,
                   health, reaper, hist>>

\* c.misses++ and the deferred Unlock; the handler goes on to the upstream
ReqRecordMiss(r) ==
    /\ req[r].pc = "recordMiss_cs"
    /\ mu' = Unlock(Pid(r))
    /\ misses' = misses + 1
    /\ req' = [req EXCEPT ![r].pc = "call"]
    /\ UNCHANGED <<entries, hits, healthState, now, ticks, env, started, out,
                   health, reaper, hist>>

\* line 141: versionhistory.NewService fails
ReqNewServiceFails(r) ==
    /\ req[r].pc = "call"
    /\ req' = [req EXCEPT ![r].pc = "recordAPIError", ![r].err = ErrNewService,
                          ![r].error = "Error creating service",
                          ![r].calls = @ + 1]
    /\ hist' = [hist EXCEPT !.attempts = @ + 1]
    /\ UNCHANGED <<store, mu, now, ticks, env, started, out, health, reaper>>

\* line 158: call.Do() returns an error
ReqDoFails(r) ==
    /\ req[r].pc = "call"
    /\ req' = [req EXCEPT ![r].pc = "recordAPIError", ![r].err = ErrDo,
                          ![r].error = "Error calling API",
                          ![r].calls = @ + 1]
    /\ hist' = [hist EXCEPT !.attempts = @ + 1]
    /\ UNCHANGED <<store, mu, now, ticks, env, started, out, health, reaper>>

\* line 158: call.Do() returns a response with this version list
ReqDoReturns(r, versions) ==
    /\ req[r].pc = "call"
    /\ req' = [req EXCEPT ![r].pc = "recordAPISuccess",
                          ![r].versions = versions,
                          ![r].calls = @ + 1]
    /\ LET p   == req[r].platform
           old == IF p \in DOMAIN hist.returned THEN hist.returned[p] ELSE {}
       IN  hist' = [hist EXCEPT !.attempts = @ + 1,
                                !.returned =
                       Put(@, p, old \cup {versions[i] :
                                               i \in 1..Len(versions)}),
                                !.responses =
                       @ \cup {[platform |-> p, versions |-> versions]}]
    /\ UNCHANGED <<store, mu, now, ticks, env, started, out, health, reaper>>

\* lines 143 and 160, recordAPIError: c.mu.Lock()
ReqRecordAPIErrorLock(r) ==
    /\ req[r].pc = "recordAPIError"
    /\ CanLock
    /\ mu' = Lock(Pid(r))
    /\ req' = [req EXCEPT ![r].pc = "recordAPIError_cs"]
    /\ UNCHANGED <<store, now, ticks, env, started, out, health, reaper, hist>>

\* a plausible slip: the failure is cached, as an entry with the zero response
ReqRecordAPIError_cached(r) ==
    /\ req[r].pc = "recordAPIError_cs"
    /\ mu' = Unlock(Pid(r))
    /\ LET h == RecordAPIError(req[r].err)
       IN  /\ lastAPICall' = h.lastAPICall
           /\ apiHealthy' = h.apiHealthy
           /\ lastAPIError' = h.lastAPIError
    /\ entries' = CacheSet(req[r].cacheKey, ZeroResponse)
    /\ out' = [req[r] EXCEPT !.pc = "done", !.code = 500, !.outcome = "error",
                              !.healthyBefore = apiHealthy]
    /\ req' = [req EXCEPT ![r] = IdleReq]
    /\ hist' = [hist EXCEPT !.outcome = "failure", !.failed = TRUE,
                            !.lastDone = Put(@, req[r].cacheKey,
                                [outcome |-> "error",
                                 sets |-> req[r].seen.sets])]
    /\ UNCHANGED <<hits, misses, now, ticks, env, started, health, reaper>>

\* lines 410-412, the deferred Unlock, and the 500 response
ReqRecordAPIError(r) ==
    /\ req[r].pc = "recordAPIError_cs"
    /\ mu' = Unlock(Pid(r))
    /\ LET h == RecordAPIError(req[r].err)
       IN  /\ lastAPICall' = h.lastAPICall
           /\ apiHealthy' = h.apiHealthy
           /\ lastAPIError' = h.lastAPIError
    /\ out' = [req[r] EXCEPT !.pc = "done", !.code = 500, !.outcome = "error",
                              !.healthyBefore = apiHealthy]
    /\ req' = [req EXCEPT ![r] = IdleReq]
    /\ hist' = [hist EXCEPT !.outcome = "failure", !.failed = TRUE,
                            !.lastDone = Put(@, req[r].cacheKey,
                                [outcome |-> "error",
                                 sets |-> req[r].seen.sets])]
    /\ UNCHANGED <<entries, hits, misses, now, ticks, env, started, health,
                   reaper>>

\* line 169, recordAPISuccess: c.mu.Lock()
ReqRecordAPISuccessLock(r) ==
    /\ req[r].pc = "recordAPISuccess"
    /\ CanLock
    /\ mu' = Lock(Pid(r))
    /\ req' = [req EXCEPT ![r].pc = "recordAPISuccess_cs"]
    /\ UNCHANGED <<store, now, ticks, env, started, out, health, reaper, hist>>

\* lines 401-403 and the deferred Unlock; then lines 171-203: 404 for an empty
\* list, else the response is built
ReqRecordAPISuccess(r) ==
    /\ req[r].pc = "recordAPISuccess_cs"
    /\ mu' = Unlock(Pid(r))
    /\ LET h == RecordAPISuccess
       IN  /\ lastAPICall' = h.lastAPICall
           /\ apiHealthy' = h.apiHealthy
           /\ lastAPIError' = h.lastAPIError
    /\ IF Len(req[r].versions) = 0
       THEN /\ out' = [req[r] EXCEPT !.pc = "done", !.code = 404,
                                     !.error = "No versions found",
                                     !.outcome = "notfound",
                                     !.healthyBefore = apiHealthy]
            /\ req' = [req EXCEPT ![r] = IdleReq]
            /\ hist' = [hist EXCEPT !.outcome = "success",
                                    !.lastDone = Put(@, req[r].cacheKey,
                                        [outcome |-> "notfound",
                                         sets |-> req[r].seen.sets])]
       ELSE /\ req' = [req EXCEPT
                          ![r].pc = "Set",
                          ![r].healthyBefore = apiHealthy,
                          ![r].response = BuildResponse(req[r].platform,
                                              req[r].offset, req[r].versions)]
            /\ out' = out
            /\ hist' = [hist EXCEPT !.outcome = "success"]
    /\ UNCHANGED <<entries, hits, misses, now, ticks, env, started, health,
                   reaper>>

\* line 206, Cache.Set: c.mu.Lock()
ReqSetLock(r) ==
    /\ req[r].pc = "Set"
    /\ CanLock
    /\ mu' = Lock(Pid(r))
    /\ req' = [req EXCEPT ![r].pc = "Set_cs"]
    /\ UNCHANGED <<store, now, ticks, env, started, out, health, reaper, hist>>

\* lines 305-308, the deferred Unlock, and lines 210-211: 200 with the response
ReqSet(r) ==
    /\ req[r].pc = "Set_cs"
    /\ mu' = Unlock(Pid(r))
    /\ entries' = CacheSet(req[r].cacheKey, req[r].response)
    /\ out' = [req[r] EXCEPT !.pc = "done", !.code = 200, !.outcome = "fresh"]
    /\ req' = [req EXCEPT ![r] = IdleReq]
    /\ LET key == req[r].cacheKey
       IN  hist' = [hist EXCEPT
               !.sets     = Put(@, key, SetsOf(key) + 1),
               !.fresh    = @ \cup {[key  |-> key,
                                     pair |-> Pair(req[r].response),
                                     exp  |-> now + cacheTTL,
                                     n    |-> SetsOf(key) + 1]},
               !.lastDone = Put(@, key, [outcome |-> "fresh",
                                         sets |-> req[r].seen.sets])]
    /\ UNCHANGED <<hits, misses, healthState, now, ticks, env, started,
                   health, reaper>>

(***************************************************************************)
(* healthCheck.                                                            *)
(***************************************************************************)
\* lines 335-343: the uptime is local; the handler reaches cache.getStats()
HealthArrive ==
    /\ health.pc \in {"idle", "done"}
    /\ health' = [IdleHealth EXCEPT !.pc = "getStats"]
    /\ UNCHANGED <<store, mu, now, ticks, env, req, started, out, reaper, hist>>

\* line 346, getStats: c.mu.RLock()
HealthGetStatsRLock ==
    /\ health.pc = "getStats"
    /\ CanRLock
    /\ mu' = RLock(HealthPid)
    /\ health' = [health EXCEPT !.pc = "getStats_cs"]
    /\ UNCHANGED <<store, now, ticks, env, req, started, out, reaper, hist>>

\* lines 437-462 and the deferred RUnlock
HealthGetStats ==
    /\ health.pc = "getStats_cs"
    /\ mu' = RUnlock(HealthPid)
    /\ health' = [health EXCEPT !.pc = "isAPIHealthy", !.stats = GetStats]
    /\ UNCHANGED <<store, now, ticks, env, req, started, out, reaper, hist>>

\* line 350, isAPIHealthy: c.mu.RLock()
HealthIsAPIHealthyRLock ==
    /\ health.pc = "isAPIHealthy"
    /\ CanRLock
    /\ mu' = RLock(HealthPid)
    /\ health' = [health EXCEPT !.pc = "isAPIHealthy_cs"]
    /\ UNCHANGED <<store, now, ticks, env, req, started, out, reaper, hist>>

\* line 419 and the deferred RUnlock; lines 349-352: the overall status
HealthIsAPIHealthy ==
    /\ health.pc = "isAPIHealthy_cs"
    /\ mu' = RUnlock(HealthPid)
    /\ health' = [health EXCEPT
                      !.pc = "getAPIStatus",
                      !.status = IF ~apiHealthy THEN "degraded" ELSE "healthy"]
    /\ UNCHANGED <<store, now, ticks, env, req, started, out, reaper, hist>>

\* line 359, getAPIStatus: c.mu.RLock()
HealthGetAPIStatusRLock ==
    /\ health.pc = "getAPIStatus"
    /\ CanRLock
    /\ mu' = RLock(HealthPid)
    /\ health' = [health EXCEPT !.pc = "getAPIStatus_cs"]
    /\ UNCHANGED <<store, now, ticks, env, req, started, out, reaper, hist>>

\* lines 426-429 and the deferred RUnlock
HealthGetAPIStatus ==
    /\ health.pc = "getAPIStatus_cs"
    /\ mu' = RUnlock(HealthPid)
    /\ health' = [health EXCEPT
                      !.pc = "lastAPICall",
                      !.apiStatus = IF apiHealthy THEN "healthy"
                                    ELSE "unhealthy"]
    /\ UNCHANGED <<store, now, ticks, env, req, started, out, reaper, hist>>

\* the request handlers inside recordAPISuccess or recordAPIError: they hold
\* the write lock and are writing the three upstream-outcome fields
HealthWriters ==
    {r \in Reqs : req[r].pc \in {"recordAPISuccess_cs", "recordAPIError_cs"}}

\* lines 364-366: cache.lastAPICall is read with no lock held.  While a writer
\* is inside its critical section the read is a data race: it may see the old
\* value, the one being written, or a torn one.  The test (IsZero) and the
\* use (Format) are one step: the field never returns to the zero time.
HealthReadLastAPICall ==
    /\ health.pc = "lastAPICall"
    /\ \E seen \in {lastAPICall}
                   \cup {TimeAt(now) : r \in HealthWriters}
                   \cup {TornTime : r \in HealthWriters} :
           health' = [health EXCEPT !.pc = "lastAPIError", !.lastCall = seen]
    /\ UNCHANGED <<store, mu, now, ticks, env, req, started, out, reaper, hist>>

\* lines 369-371: cache.lastAPIError is read with no lock held (the same
\* race); the test and the use are one step, an empty text being left out of
\* the response either way (omitempty).  Lines 374-380: 200 when healthy,
\* else 503
HealthReadLastAPIError ==
    /\ health.pc = "lastAPIError"
    /\ \E seen \in {lastAPIError}
                   \cup {IF req[r].pc = "recordAPIError_cs" THEN req[r].err
                         ELSE "" : r \in HealthWriters}
                   \cup {TornString : r \in HealthWriters} :
           health' = [health EXCEPT
                          !.pc = "done", !.lastError = seen,
                          !.code = IF health.status = "healthy" THEN 200
                                   ELSE 503]
    /\ UNCHANGED <<store, mu, now, ticks, env, req, started, out, reaper, hist>>

(***************************************************************************)
(* cleanupExpiredCache and the clock.                                      *)
(***************************************************************************)
\* lines 316-317: a tick is received from ticker.C, then cache.mu.Lock()
ReaperLock ==
    /\ reaper.pc = "wait"
    /\ reaper.tick
    /\ CanLock
    /\ mu' = Lock(ReaperPid)
    /\ reaper' = [pc |-> "sweep", tick |-> FALSE, count |-> 0]
    /\ UNCHANGED <<store, now, ticks, env, req, started, out, health, hist>>

\* lines 318-329: the sweep and cache.mu.Unlock()
ReaperSweep ==
    /\ reaper.pc = "sweep"
    /\ mu' = Unlock(ReaperPid)
    /\ entries' = Sweep
    /\ reaper' = [reaper EXCEPT
                      !.pc = "wait",
                      !.count = Cardinality(DOMAIN entries \ DOMAIN Sweep)]
    /\ UNCHANGED <<hits, misses, healthState, now, ticks, env, req, started,
                   out, health, hist>>

\* the steps by which the clock is seen to advance: one hour, the TTL, or
\* one hour more than the TTL
TickSteps == {TickerPeriod, cacheTTL, cacheTTL + TickerPeriod}

\* time passes; every step is at least one ticker period, so the ticker sends
\* a tick, which ticker.C (capacity one) keeps until the reaper receives it
Tick(d) ==
    /\ ticks < MaxTicks
    /\ ticks' = ticks + 1
    /\ now' = now + d
    /\ reaper' = [reaper EXCEPT !.tick = TRUE]
    /\ UNCHANGED <<store, mu, env, req, started, out, health, hist>>

(***************************************************************************)
(* The service.                                                            *)
(***************************************************************************)
\* one step of handler r, its inputs drawn from the given sets
ReqStep(r, platformParams, offsetParams, versionLists) ==
    \/ \E pp \in platformParams, op \in offsetParams : ReqArrive(r, pp, op)
    \/ ReqGetRLock(r)
    \/ ReqGet(r)
    \/ ReqRecordHitLock(r)
    \/ ReqRecordHit(r)
    \/ ReqRecordMissLock(r)
    \/ ReqRecordMiss(r)
    \/ ReqNewServiceFails(r)
    \/ ReqDoFails(r)
    \/ \E versions \in versionLists : ReqDoReturns(r, versions)
    \/ ReqRecordAPIErrorLock(r)
    \/ ReqRecordAPIError(r)
    \/ ReqRecordAPISuccessLock(r)
    \/ ReqRecordAPISuccess(r)
    \/ ReqSetLock(r)
    \/ ReqSet(r)

HealthStep ==
    \/ HealthArrive
    \/ HealthGetStatsRLock
    \/ HealthGetStats
    \/ HealthIsAPIHealthyRLock
    \/ HealthIsAPIHealthy
    \/ HealthGetAPIStatusRLock
    \/ HealthGetAPIStatus
    \/ HealthReadLastAPICall
    \/ HealthReadLastAPIError

ReaperStep == ReaperLock \/ ReaperSweep

ClockStep == \E d \in TickSteps : Tick(d)

\* concurrent requests for one cache key, the reaper and the clock
Next ==
    \/ \E r \in Reqs :
           ReqStep(r, SomePlatformParams, SomeOffsetParams, SomeVersionLists)
    \/ ReaperStep
    \/ ClockStep

Spec == Init /\ [][Next]_vars

\* requests one after the other, with every input
NextSeq ==
    /\ ReqStep(1, PlatformParams, OffsetParams, VersionLists)
    /\ started' <= MaxSeqRequests

SpecSeq == InitSeq /\ [][NextSeq]_vars

\* requests one after the other and the /health handler
NextHealth ==
    \/ ReqStep(1, SomePlatformParams, SomeOffsetParams, SomeVersionLists)
    \/ HealthStep
    \/ ClockStep

SpecHealth == Init /\ [][NextHealth]_vars

\* requests one after the other with every offset parameter, under every
\* VERSION_OFFSET
NextOffset ==
    /\ ReqStep(1, {"", "vista"}, OffsetParams, {<<V31, V21, V20>>})
    /\ started' <= MaxSeqRequests

SpecOffset == InitOffset /\ [][NextOffset]_vars

\* the offset parameters of two cache keys: absent (the default) and 1
TwoOffsetParams == {<<>>, <<"1">>}

\* the upstream has one release to return, or none
OneRelease == { <<>>, <<V31, V21, V20>> }

\* requests one after the other for two cache keys, the reaper and the clock
NextReaper ==
    \/ ReqStep(1, SomePlatformParams, TwoOffsetParams, OneRelease)
    \/ ReaperStep
    \/ ClockStep

SpecReaper == Init /\ [][NextReaper]_vars

\* a goroutine that is inside a critical section leaves it: the body and the
\* deferred Unlock.  The lock lets one writer or the readers in, and here one
\* handler runs at a time, so at most one of these steps is enabled.
LeaveCriticalSection ==
    \/ ReqGet(1)
    \/ ReqRecordHit(1)
    \/ ReqRecordMiss(1)
    \/ ReqRecordAPIError(1)
    \/ ReqRecordAPISuccess(1)
    \/ ReqSet(1)
    \/ ReaperSweep

\* the scheduling of the goroutines: a critical section that has been entered
\* is left, and the reaper, which blocks in Lock once it has received a tick,
\* gets the lock when it is free again and again (sync.RWMutex does not
\* starve a waiting writer)
FairReaper ==
    /\ WF_vars(LeaveCriticalSection)
    /\ SF_vars(ReaperLock)

SpecReaperFair == SpecReaper /\ FairReaper

\* requests one after the other for two cache keys, the /health handler, the
\* reaper and the clock
NextStats ==
    /\ \/ ReqStep(1, SomePlatformParams, TwoOffsetParams, {<<V31, V21, V20>>})
       \/ HealthStep
       \/ ReaperStep
       \/ ClockStep
    /\ started' <= MaxSeqRequests

SpecStats == Init /\ [][NextStats]_vars

\* the platform parameter absent or one of the five valid names; the offset
\* parameter absent, or a numeral that is or is not a resolved default, one of
\* them such that "win" with it and "win64" with 10 have the same characters
KeyPlatformParams == {"", "win", "win64", "mac", "mac_arm64", "linux"}
KeyOffsetParams == {<<>>, <<"0">>, <<"1", "0">>, <<"6", "4", "1", "0">>}

\* requests one after the other for every valid platform, under a
\* VERSION_OFFSET that is unset, 0 or not a number
NextKey ==
    /\ ReqStep(1, KeyPlatformParams, KeyOffsetParams, {<<V31, V21, V20>>})
    /\ started' <= MaxSeqRequests

SpecKey == InitSeq /\ [][NextKey]_vars

\* the platform parameter absent or invalid
LivePlatformParams == {"", "vista"}

\* concurrent requests, the /health handler and the reaper; the hour of the
\* ticker ends while no request is in flight, and the reaper then contends
\* for the lock with the requests and the health checks that follow
NextLive ==
    /\ \/ \E r \in Reqs :
              ReqStep(r, LivePlatformParams, SomeOffsetParams, OneRelease)
       \/ HealthStep
       \/ ReaperStep
       \/ (\A r \in Reqs : req[r].pc = "idle") /\ Tick(TickerPeriod)
    /\ started' <= MaxSeqRequests

SpecLive == Init /\ [][NextLive]_vars

\* handler r blocks in Lock or RLock until it gets the lock
ReqAcquire(r) ==
    \/ ReqGetRLock(r)
    \/ ReqRecordHitLock(r)
    \/ ReqRecordMissLock(r)
    \/ ReqRecordAPIErrorLock(r)
    \/ ReqRecordAPISuccessLock(r)
    \/ ReqSetLock(r)

\* handler r runs: a critical section with its deferred release, or the
\* upstream call, which returns a list or an error
ReqRun(r) ==
    \/ ReqGet(r)
    \/ ReqRecordHit(r)
    \/ ReqRecordMiss(r)
    \/ ReqNewServiceFails(r)
    \/ ReqDoFails(r)
    \/ \E versions \in OneRelease : ReqDoReturns(r, versions)
    \/ ReqRecordAPIError(r)
    \/ ReqRecordAPISuccess(r)
    \/ ReqSet(r)

\* the /health handler and the reaper leave a critical section they are in
OthersRelease ==
    \/ HealthGetStats
    \/ HealthIsAPIHealthy
    \/ HealthGetAPIStatus
    \/ ReaperSweep

\* the scheduling of the goroutines: a handler that can run does, the
\* upstream call of a request returns, and of the handlers that block in Lock
\* or RLock one gets the lock when it is free again and again (sync.RWMutex
\* starves neither a writer nor a reader).  The go scheduler and the mutex
\* give this to every handler; it is assumed of the handlers together only.
FairLive ==
    /\ WF_vars(\E r \in Reqs : ReqRun(r))
    /\ SF_vars(\E r \in Reqs : ReqAcquire(r))
    /\ WF_vars(OthersRelease)

SpecLiveFair == SpecLive /\ FairLive

(***************************************************************************)
(* Properties.  A handler in flight is one that has looked its key up; the *)
(* handlers that have answered are seen through out.                       *)
(***************************************************************************)
\* the platform and the offset a cache key was formatted from: what is before
\* and what is after its first colon
Colon(k) ==
    CHOOSE i \in 1..Len(k) : k[i] = ":" /\ \A j \in 1..(i - 1) : k[j] # ":"

KeyPlatform(k) ==
    CHOOSE p \in ValidPlatforms : Chars(p) = SubSeq(k, 1, Colon(k) - 1)

KeyOffset(k) == Atoi(SubSeq(k, Colon(k) + 1, Len(k))).val

\* the handlers that are past their cache lookup, and the last one to answer
PastLookup ==
    {req[r] : r \in {q \in Reqs : req[q].pc \notin {"idle", "Get", "Get_cs"}}}
        \cup {x \in {out} : x.pc = "done" /\ x.code # 400}

OnHitPath(x) ==
    \/ x.pc \in {"recordHit", "recordHit_cs"}
    \/ x.pc = "done" /\ x.outcome = "hit" /\ x.code = 200

\* C1 as stated: once a fresh response for a key has been written, every
\* request that looks the key up before that entry's TTL has elapsed is a
\* cache hit, calls the upstream zero times and returns the latest and
\* latest_accepted of that first response.
C1_Original ==
    \A x \in PastLookup : \A f \in x.seen.prior :
        /\ OnHitPath(x)
        /\ x.calls = 0
        /\ Pair(x.response) = f.pair

\* C1, amended: such a request is a cache hit, calls the upstream zero times,
\* and returns the latest and latest_accepted of the first response provided
\* no other request has stored a result under the key since that response.
C1_HitWithinTTL ==
    \A x \in PastLookup : \A f \in x.seen.prior :
        /\ OnHitPath(x)
        /\ x.calls = 0
        /\ x.seen.sets = f.n => Pair(x.response) = f.pair

\* a request has been answered from the cache, after the clock advanced, with
\* the values of an earlier fresh response
C1_Witness ==
    /\ out.pc = "done" /\ out.outcome = "hit" /\ out.seen.at > 0
    /\ \E f \in out.seen.prior :
           out.seen.sets = f.n /\ Pair(out.response) = f.pair

\* the keys Get is asked for: the stored ones and some that may be absent
ProbeKeys ==
    DOMAIN entries \cup
        {CacheKeyOf(p, o) : p \in ValidPlatforms, o \in {0, 1, DefaultOffset}}

\* C2 as stated: Get returns found only for a present entry and a current
\* time before the entry's expiry; at the instant equal to the expiry it
\* returns not found.
C2_Original ==
    /\ \A k \in ProbeKeys :
           CacheGet(k).found => k \in DOMAIN entries /\ now < entries[k].ExpiresAt
    /\ \A x \in PastLookup :
           OnHitPath(x) => x.seen.present /\ x.seen.at < x.seen.exp

\* C2, amended: Get returns (value, found) exactly when an entry for the key
\* is present and the current time is not after its expiry, so at the instant
\* equal to the expiry the entry is still found; in every other case, an
\* expired entry not yet swept included, it returns not found and the zero
\* value.
C2_GetFoundIffNotAfterExpiry ==
    /\ \A k \in ProbeKeys :
           LET live == k \in DOMAIN entries /\ now <= entries[k].ExpiresAt
           IN  /\ CacheGet(k).found <=> live
               /\ CacheGet(k).value =
                      IF live THEN entries[k].Response ELSE ZeroResponse
    /\ \A x \in PastLookup :
           OnHitPath(x) <=> x.seen.present /\ x.seen.at <= x.seen.exp

\* a request was answered from the cache by a lookup at the very instant of
\* the entry's expiry
C2_Witness ==
    /\ out.pc = "done" /\ out.outcome = "hit"
    /\ out.seen.present /\ out.seen.at = out.seen.exp

\* a parameter value the validation must reject
IsNumeral(op) ==
    LET digits == IF Len(op) > 0 /\ op[1] \in {"+", "-"} THEN Tail(op) ELSE op
    IN  Len(digits) > 0 /\ \A i \in 1..Len(digits) : IsDigit(digits[i])

IsNegative(op) ==
    /\ IsNumeral(op)
    /\ op[1] = "-"
    /\ \E i \in 2..Len(op) : op[i] # "0"

BadPlatformParam(pp) ==
    pp \notin {"", "win", "win64", "mac", "mac_arm64", "linux"}

BadOffsetParam(op) == op # <<>> /\ (~IsNumeral(op) \/ IsNegative(op))

\* the request that arrives in a step that accepts one
Arriving ==
    IF req' = req THEN out'
    ELSE req'[CHOOSE r \in Reqs : req'[r] # req[r]]

\* C3: a request whose platform is outside the five valid ones, or whose
\* offset parameter is non-numeric or negative, is answered 400 in the step
\* that takes it: no handler goes on to a cache lookup or an upstream call,
\* and the entries, both counters, the upstream-health state, the lock and
\* the histories are unchanged.
C3_ValidationTouchesNothing ==
    [][ ( /\ started' = started + 1
          /\ \/ BadPlatformParam(Arriving.platformParam)
             \/ BadOffsetParam(Arriving.offsetParam) ) =>
            /\ req' = req
            /\ out'.pc = "done" /\ out'.code = 400
            /\ out'.calls = 0 /\ out'.seen = NoSeen
            /\ store' = store
            /\ mu' = mu
            /\ hist' = hist ]_vars

\* a request with the offset parameter "x" has been rejected while the cache
\* holds an entry for its platform
C3_Witness ==
    /\ out.pc = "done" /\ out.code = 400 /\ out.offsetParam = <<"x">>
    /\ \E k \in DOMAIN entries : KeyPlatform(k) = out.platform

\* the step in which handler r leaves the critical section at pc
Leaves(r, pc) == req[r].pc = pc /\ req'[r].pc # pc

\* C4 as stated: a request whose upstream call returns an empty list ends in
\* 404, stores no entry, and leaves the healthy flag, the last-call time and
\* the last-error text as they were.
C4_Original ==
    [][ \A r \in Reqs :
          Leaves(r, "recordAPISuccess_cs") /\ Len(req[r].versions) = 0 =>
            /\ out'.code = 404
            /\ entries' = entries
            /\ healthState' = healthState ]_vars

\* C4, amended: such a request ends in 404 and stores no entry, but it does
\* record the upstream success before it looks at the list: the healthy flag
\* becomes true, the last-call time the current time and the last-error text
\* empty, so a degraded store becomes healthy.
C4_EmptyListRecordsSuccess ==
    [][ \A r \in Reqs :
          Leaves(r, "recordAPISuccess_cs") /\ Len(req[r].versions) = 0 =>
            /\ out'.pc = "done" /\ out'.code = 404
            /\ out'.outcome = "notfound"
            /\ req'[r].pc = "idle"
            /\ entries' = entries
            /\ apiHealthy' = TRUE
            /\ lastAPICall' = TimeAt(now)
            /\ lastAPIError' = "" ]_vars

\* an empty upstream list has been answered 404 on a degraded store, which is
\* healthy now, and the cache is empty
C4_Witness ==
    /\ out.pc = "done" /\ out.code = 404 /\ ~out.healthyBefore
    /\ apiHealthy /\ lastAPIError = "" /\ entries = <<>>

\* C7 as stated: after a request has failed at the upstream, the next request
\* for the same key misses again and calls the upstream again.
C7_Original ==
    \A x \in PastLookup :
        x.seen.afterFail =>
            /\ ~OnHitPath(x)
            /\ (x.pc = "done" => x.calls = 1)

\* where a handler that has missed is
OnMissPath(x) ==
    \/ x.pc \in {"recordMiss", "recordMiss_cs", "call", "recordAPIError",
                 "recordAPIError_cs", "recordAPISuccess",
                 "recordAPISuccess_cs", "Set", "Set_cs"}
    \/ x.pc = "done" /\ x.outcome \in {"error", "notfound", "fresh"}
                     /\ x.calls = 1

\* C7, amended: a failed upstream call (or client construction) is recorded
\* with its error text, answered 500, and creates or changes no entry; the
\* next request for the same key misses again and calls the upstream again,
\* unless another request has stored a result under the key since the failed
\* request looked it up.
C7_NoNegativeCaching ==
    /\ [](\A x \in PastLookup :
            x.seen.afterFail /\ x.seen.sets = x.seen.failSets =>
                OnMissPath(x))
    /\ [][ \A r \in Reqs :
             Leaves(r, "recordAPIError_cs") =>
               /\ out'.pc = "done" /\ out'.code = 500
               /\ req[r].calls = 1
               /\ entries' = entries
               /\ apiHealthy' = FALSE
               /\ lastAPICall' = TimeAt(now)
               /\ lastAPIError' = req[r].err
               /\ req[r].err \in {ErrNewService, ErrDo} ]_vars

\* the request after a failed one has missed and called the upstream again
C7_Witness ==
    /\ out.pc = "done" /\ out.calls = 1
    /\ out.seen.afterFail /\ out.seen.sets = out.seen.failSets
    /\ out.outcome = "fresh"

\* the fields of the store a handler at this position reads in its next step
ReqReads(r) ==
    IF req[r].pc = "Get_cs" THEN {"entries"} ELSE {}

\* the fields of the store a handler at this position writes in its next step
ReqWrites(r) ==
    CASE req[r].pc = "recordHit_cs" -> {"hits"}
      [] req[r].pc = "recordMiss_cs" -> {"misses"}
      [] req[r].pc \in {"recordAPISuccess_cs", "recordAPIError_cs"} ->
             {"apiHealthy", "lastAPICall", "lastAPIError"}
      [] req[r].pc = "Set_cs" -> {"entries"}
      [] OTHER -> {}

HealthReads ==
    CASE health.pc = "getStats_cs" -> {"entries", "hits", "misses"}
      [] health.pc \in {"isAPIHealthy_cs", "getAPIStatus_cs"} -> {"apiHealthy"}
      [] health.pc = "lastAPICall" -> {"lastAPICall"}
      [] health.pc = "lastAPIError" -> {"lastAPIError"}
      [] OTHER -> {}

ReaperWrites == IF reaper.pc = "sweep" THEN {"entries"} ELSE {}

\* C5 as stated: no read of a field of the store is concurrent with a write
\* of it, and no two writes of a field are concurrent.
C5_Original ==
    /\ \A r \in Reqs : ReqWrites(r) \cap HealthReads = {}
    /\ \A r \in Reqs : ReqWrites(r) \cap ReaperWrites = {}
    /\ ReaperWrites \cap HealthReads = {}
    /\ \A r, q \in Reqs :
           r # q => ReqWrites(r) \cap (ReqWrites(q) \cup ReqReads(q)) = {}
    /\ \A r \in Reqs : ReaperWrites \cap ReqReads(r) = {}

\* C6: the healthy flag is true exactly when no upstream outcome has been
\* recorded or the last one recorded is a success; the status the health
\* handler computes is "healthy" for a true flag and "degraded" for a false
\* one, whatever the entries and the counters are, and its response is 200
\* for "healthy" and 503 for "degraded".
C6_StatusFollowsLastOutcome ==
    /\ [](/\ apiHealthy <=> hist.outcome \in {"none", "success"}
          /\ health.pc = "done" =>
                 \/ health.status = "healthy" /\ health.code = 200
                 \/ health.status = "degraded" /\ health.code = 503)
    /\ [][ health.pc = "isAPIHealthy_cs" /\ health'.pc # health.pc =>
             health'.status = IF hist.outcome = "failure" THEN "degraded"
                              ELSE "healthy" ]_vars

\* the health handler has answered 200 after a failure and then a success
\* were recorded, and the cache is empty
C6_Witness ==
    /\ health.pc = "done" /\ health.code = 200 /\ health.status = "healthy"
    /\ hist.failed /\ hist.outcome = "success"
    /\ entries = <<>>

\* the positions in the list of the elements whose major is the target
Matches(versions, target) ==
    {i \in 1..Len(versions) : extractMajor(versions[i]) = target}

FirstOf(S) == CHOOSE i \in S : \A j \in S : i <= j

\* the response of a request that missed and got a non-empty list
Missed == out.pc = "done" /\ out.calls = 1 /\ Len(out.versions) > 0

\* the lists and offsets of the two examples
Ex143 ==
    << <<"1","4","3",".","0",".","7","4","9","9",".","4","1">>,
       <<"1","4","2",".","0",".","1",".","1">>,
       <<"1","3","3",".","0",".","6","9","4","3",".","1","4","3">> >>

Ex100 == << <<"1","0","0",".","0",".","0",".","0">> >>

ExamplesHold ==
    /\ BuildResponse("win64", 10, Ex143).LatestAccepted = Ex143[3]
    /\ BuildResponse("win64", 50, Ex100).LatestAccepted =
           <<"5","0",".","0",".","0",".","0">>

Returned(platform) ==
    IF platform \in DOMAIN hist.returned THEN hist.returned[platform] ELSE {}

\* C9 as stated: in every 200 response, fresh or cached, latest_accepted is
\* one of the version strings the upstream returned for that platform.
C9_Original ==
    out.pc = "done" /\ out.code = 200 =>
        out.response.LatestAccepted \in Returned(out.platform)

\* a dotted version string whose first component is a numeral
IsVersionString(v) ==
    LET parts == Split(v)
    IN  Len(parts) >= 2 /\ IsNumeral(parts[1])

\* C10 as stated: in every 200 response latest_accepted is a dotted version
\* string whose first dot-separated component is a numeral.
C10_Original ==
    out.pc = "done" /\ out.code = 200 =>
        IsVersionString(out.response.LatestAccepted)

\* the step in which the reaper does its sweep
Sweeps == reaper.pc = "sweep" /\ reaper'.pc = "wait"

\* the entries whose expiry has passed
ExpiredKeys == {k \in DOMAIN entries : now > entries[k].ExpiresAt}

\* C11: a sweep removes every entry whose expiry has passed at the time of
\* the sweep and no other: every other entry, one just stored included, is
\* there afterwards with the same value and expiry; with no expired entry the
\* sweep changes nothing.  The counters and the health state are unchanged.
C11_SweepRemovesExactlyExpired ==
    [][ Sweeps =>
          /\ DOMAIN entries' = DOMAIN entries \ ExpiredKeys
          /\ \A k \in DOMAIN entries' : entries'[k] = entries[k]
          /\ ExpiredKeys = {} => entries' = entries
          /\ reaper'.count = Cardinality(ExpiredKeys)
          /\ <<hits, misses, healthState>>' = <<hits, misses, healthState>>
      ]_vars

\* a sweep has removed one entry and left the other, which was stored after
\* the clock advanced
C11_Witness ==
    /\ reaper.pc = "wait" /\ reaper.count = 1
    /\ Cardinality(DOMAIN entries) = 1
    /\ \A k \in DOMAIN entries : entries[k].ExpiresAt = now + cacheTTL

\* the cache keys of the requests for the default platform
ReaperKeys ==
    {CacheKeyOf("win64", DefaultOffset), CacheKeyOf("win64", 1)}

\* C12: with the goroutines scheduled fairly, an entry whose expiry has
\* passed is eventually removed from the store, unless it is overwritten
\* with a fresh one; no lookup is needed for that.
C12_ExpiredEventuallyRemoved ==
    \A k \in ReaperKeys :
        (k \in DOMAIN entries /\ now > entries[k].ExpiresAt)
            ~> (k \notin DOMAIN entries \/ now <= entries[k].ExpiresAt)

\* the reaper has removed the only entry, and the entry was never looked up
\* after it was stored
C12_Witness ==
    /\ reaper.pc = "wait" /\ reaper.count = 1
    /\ entries = <<>>
    /\ started = 1 /\ out.pc = "done" /\ out.outcome = "fresh"

\* the handlers that have their result and have not stored it yet
Storing == {r \in Reqs : req[r].pc \in {"Set", "Set_cs"}}

\* C13 as stated: two requests for one key that both missed and both called
\* the upstream have the same result to store, so the value left in the
\* cache is the same whichever Set runs last.
C13_Original ==
    \A r, q \in Storing :
        req[r].cacheKey = req[q].cacheKey => req[r].response = req[q].response

\* the fresh result stored by the n-th Set under a key
StoredBy(key, n) == {f \in hist.fresh : f.key = key /\ f.n = n}

\* C13, amended: two such requests have the same result to store when the
\* upstream returned the same list to both; the value left in the cache is
\* that of the Set that ran last, and a hit returns the value of the Set that
\* ran last before its lookup.
C13_LastSetWins ==
    /\ \A r, q \in Storing :
           /\ req[r].cacheKey = req[q].cacheKey
           /\ req[r].versions = req[q].versions
           => req[r].response = req[q].response
    /\ \A k \in DOMAIN entries :
           \E f \in StoredBy(k, SetsOf(k)) : Pair(entries[k].Response) = f.pair
    /\ \A x \in PastLookup :
           OnHitPath(x) =>
               \E f \in StoredBy(x.cacheKey, x.seen.sets) :
                   Pair(x.response) = f.pair

\* two requests missed together and stored different results; the second is
\* what the cache holds
C13_Witness ==
    /\ \E f \in StoredBy(CacheKeyOf("win64", DefaultOffset), 1) :
       \E g \in StoredBy(CacheKeyOf("win64", DefaultOffset), 2) :
           /\ f.exp = g.exp /\ f.pair # g.pair
           /\ CacheKeyOf("win64", DefaultOffset) \in DOMAIN entries
           /\ Pair(entries[CacheKeyOf("win64", DefaultOffset)].Response)
                  = g.pair
    /\ Storing = {}

\* who holds cache.mu, for reading or for writing
Holders == mu.writer \cup mu.readers

\* the goroutines that are inside a critical section
InCriticalSection ==
    {Pid(r) : r \in {q \in Reqs :
                        req[q].pc \in {"Get_cs", "recordHit_cs",
                                       "recordMiss_cs", "recordAPIError_cs",
                                       "recordAPISuccess_cs", "Set_cs"}}}
        \cup {p \in {ReaperPid} : reaper.pc = "sweep"}
        \cup {p \in {HealthPid} :
                  health.pc \in {"getStats_cs", "isAPIHealthy_cs",
                                 "getAPIStatus_cs"}}

\* C14: the lock is held by the goroutines inside a critical section and by
\* no other, so a request whose upstream call is in flight does not hold it,
\* and the lock is free for the others whenever none of them is inside a
\* critical section.
C14_NoLockDuringUpstream ==
    /\ Holders = InCriticalSection
    /\ \A r \in Reqs :
           req[r].pc \in {"call", "recordAPIError", "recordAPISuccess"} =>
               Pid(r) \notin Holders
    /\ (\E r \in Reqs : req[r].pc = "call") /\ InCriticalSection = {} =>
           CanLock /\ CanRLock

\* while the first request is in its upstream call, a second one has missed
\* and stored, a third one has hit, and the reaper has swept the entry
C14_Witness ==
    /\ req[1].pc = "call"
    /\ out.pc = "done" /\ out.outcome = "hit"
    /\ hits = 1 /\ misses = 2
    /\ reaper.pc = "wait" /\ reaper.count = 1

\* C15: a Get of the key in the state a Set leaves returns the value set
\* and found = TRUE, whatever entry the key held before; and as long as less
\* than the TTL has passed since the Set that wrote an entry, a Get of its
\* key returns that entry's value and found = TRUE.
C15_SetThenGet ==
    /\ [][ \A r \in Reqs :
             Leaves(r, "Set_cs") =>
                 \A k \in {req[r].cacheKey} : \A v \in {req[r].response} :
                     CacheGet(k)' = [value |-> v, found |-> TRUE] ]_vars
    /\ [](\A k \in DOMAIN entries :
            now < entries[k].ExpiresAt =>
                /\ CacheGet(k) = [value |-> entries[k].Response,
                                  found |-> TRUE]
                /\ \E f \in StoredBy(k, SetsOf(k)) :
                       /\ Pair(entries[k].Response) = f.pair
                       /\ entries[k].ExpiresAt = f.exp)

\* a Set has just replaced an expired entry, and a Get of the key returns the
\* value set
C15_Witness ==
    /\ out.pc = "done" /\ out.outcome = "fresh"
    /\ out.seen.present /\ out.seen.at > out.seen.exp
    /\ CacheGet(out.cacheKey) = [value |-> out.response, found |-> TRUE]
    /\ now > 0

\* C16: a Set leaves one entry under its key, with the value given and the
\* expiry 24 hours after the time of the Set, whatever expiry the key had;
\* the entries under other keys, both counters and the health state are as
\* they were.
C16_SetReplacesWholesale ==
    [][ \A r \in Reqs :
          Leaves(r, "Set_cs") =>
              /\ DOMAIN entries' = DOMAIN entries \cup {req[r].cacheKey}
              /\ entries'[req[r].cacheKey] =
                     [Response |-> req[r].response, ExpiresAt |-> now + 24]
              /\ \A k \in DOMAIN entries \ {req[r].cacheKey} :
                     entries'[k] = entries[k]
              /\ <<hits, misses, healthState>>' = <<hits, misses, healthState>>
      ]_vars

\* a Set has replaced an expired entry while an expired entry under the other
\* key is still there
C16_Witness ==
    /\ out.pc = "done" /\ out.outcome = "fresh" /\ out.seen.present
    /\ Cardinality(DOMAIN entries) = 2
    /\ entries[out.cacheKey].ExpiresAt = now + 24
    /\ \E k \in DOMAIN entries : entries[k].ExpiresAt < now

\* a handler whose lookup found an entry whose expiry had passed
SawExpired(x) == x.seen.present /\ x.seen.at > x.seen.exp

\* C17: a request whose lookup finds an entry whose expiry has passed, the
\* entry still being in the map, is a miss: it goes on to record the miss
\* and to call the upstream once, and when the list is not empty its Set
\* leaves the fresh result under the key, expiring 24 hours after the Set.
C17_ExpiredEntryIsMiss ==
    /\ [](\A x \in PastLookup :
            SawExpired(x) =>
                /\ OnMissPath(x)
                /\ x.pc = "done" => x.calls = 1 /\ x.code \in {200, 404, 500}
                /\ x.pc = "done" /\ Len(x.versions) > 0 =>
                       x.code = 200 /\ x.outcome = "fresh")
    /\ [][ \A r \in Reqs :
             /\ Leaves(r, "recordMiss_cs") /\ SawExpired(req[r])
                 => misses' = misses + 1 /\ req'[r].pc = "call"
             /\ Leaves(r, "Set_cs") /\ SawExpired(req[r])
                 => entries'[req[r].cacheKey] =
                        [Response  |-> BuildResponse(req[r].platform,
                                           req[r].offset, req[r].versions),
                         ExpiresAt |-> now + 24] ]_vars

\* a request found the expired entry in the map, missed, called the upstream
\* and stored the fresh result
C17_Witness ==
    /\ out.pc = "done" /\ out.outcome = "fresh" /\ SawExpired(out)
    /\ out.calls = 1 /\ misses = 2
    /\ out.cacheKey \in DOMAIN entries
    /\ entries[out.cacheKey] =
           [Response |-> out.response, ExpiresAt |-> now + cacheTTL]

\* a string that is the numeral of an integer >= 0
IsOffset(str) == IsNumeral(str) /\ ~IsNegative(str)

\* the cache keys whose offset is negative
NegativeKeys == {k \in DOMAIN entries : k[Colon(k) + 1] = "-"}

\* C18: a request with an offset parameter is resolved from the parameter
\* alone, whatever VERSION_OFFSET is: the parameter's value when it is the
\* numeral of an integer >= 0, a 400 otherwise; a request without one gets
\* the value of VERSION_OFFSET when that is the numeral of an integer >= 0
\* and 10 otherwise (unset, non-numeric, negative).  The offset of a request
\* in flight and of a cache key is never negative.
C18_OffsetResolution ==
    /\ [][ started' = started + 1 /\ ~BadPlatformParam(Arriving.platformParam)
             => LET a == Arriving
                IN  IF a.offsetParam # <<>>
                    THEN IF IsOffset(a.offsetParam)
                         THEN /\ a.pc = "Get"
                              /\ a.offset = Atoi(a.offsetParam).val
                         ELSE a.pc = "done" /\ a.code = 400
                    ELSE /\ a.pc = "Get"
                         /\ a.offset = IF IsOffset(env) THEN Atoi(env).val
                                       ELSE 10 ]_vars
    /\ [](/\ \A r \in Reqs :
               req[r].pc # "idle" =>
                   /\ req[r].offset >= 0
                   /\ req[r].cacheKey =
                          CacheKeyOf(req[r].platform, req[r].offset)
          /\ NegativeKeys = {})

\* a negative offset parameter has been rejected although VERSION_OFFSET is
\* valid, after a request without the parameter was served with offset 2
C18_Witness ==
    /\ env = <<"2">>
    /\ out.pc = "done" /\ out.code = 400 /\ out.offsetParam = <<"-", "1">>
    /\ CacheKeyOf("win64", 2) \in DOMAIN entries

\* the step in which the health handler takes its statistics
TakesStats == health.pc = "getStats_cs" /\ health'.pc # health.pc

\* C19 as stated: the hit rate is omitted exactly when hits + misses = 0 and
\* otherwise equals hits / (hits + misses) * 100, over the counters of the
\* state in which the lock is held; after 3 hits and 1 miss it is 75.
C19_Original ==
    [][ TakesStats =>
          IF hits + misses = 0 THEN health'.stats.hitRate = <<>>
          ELSE /\ Len(health'.stats.hitRate) = 1
               /\ health'.stats.hitRate[1] * (hits + misses) = hits * 10000
      ]_vars

\* q is x / y rounded to the nearest integer
IsRounded(q, x, y) == 2 * x - y <= 2 * q * y /\ 2 * q * y <= 2 * x + y

\* C19, amended: the hit rate is omitted exactly when hits + misses = 0 and
\* otherwise is hits / (hits + misses) * 100 rounded to two decimals, over
\* the counters of the state in which the lock is held; after 3 hits and 1
\* miss it is 75.00.
C19_HitRateRounded ==
    /\ [][ TakesStats =>
             IF hits + misses = 0 THEN health'.stats.hitRate = <<>>
             ELSE /\ Len(health'.stats.hitRate) = 1
                  /\ IsRounded(health'.stats.hitRate[1], hits * 10000,
                               hits + misses) ]_vars
    /\ [](HitRateOf(3, 1) = <<7500>> /\ HitRateOf(0, 0) = <<>>)

\* the health handler has answered with a hit rate of 66.67 after two hits
\* and one miss
C19_Witness ==
    /\ health.pc = "done" /\ health.stats.hitRate = <<6667>>
    /\ hits = 2 /\ misses = 1

\* the handlers that have looked their key up and not yet counted it
Uncounted ==
    {r \in Reqs : req[r].pc \in {"recordHit", "recordHit_cs", "recordMiss",
                                 "recordMiss_cs"}}

\* no request is in flight
Quiescent == \A r \in Reqs : req[r].pc = "idle"

\* C20: the lookup changes nothing in the store; the counters never
\* decrease, and a handler that has looked its key up adds one to hits (a
\* hit) or one to misses (a miss) and nothing to the other, no other step
\* changing either.  So hits + misses is the number of lookups less those not
\* yet counted, and at a quiescent state it is the number of lookups, hits
\* the number of requests answered from the cache, and the attempts of an
\* upstream call are never more than the misses.
C20_ExactAccounting ==
    /\ [](/\ hits + misses + Cardinality(Uncounted) = hist.lookups
          /\ hist.attempts <= misses
          /\ Quiescent =>
                 /\ hits + misses = hist.lookups
                 /\ hits = hist.fromCache)
    /\ [][ /\ hits' >= hits /\ misses' >= misses
           /\ \A r \in Reqs :
                  /\ Leaves(r, "Get_cs") => store' = store
                  /\ Leaves(r, "recordHit_cs") =>
                         hits' = hits + 1 /\ misses' = misses
                  /\ Leaves(r, "recordMiss_cs") =>
                         misses' = misses + 1 /\ hits' = hits
           /\ (\A r \in Reqs : ~Leaves(r, "recordHit_cs")
                               /\ ~Leaves(r, "recordMiss_cs")) =>
                  hits' = hits /\ misses' = misses ]_vars

\* three requests have been served, one from the cache; of the two that
\* missed, both attempted the upstream call
C20_Witness ==
    /\ Quiescent /\ hist.lookups = 3
    /\ hits = 1 /\ misses = 2 /\ hist.attempts = 2 /\ hist.fromCache = 1

\* the step in which handler r, on its way to answer from the cache, moves
HitStep(r) ==
    /\ req'[r] # req[r]
    /\ \/ req[r].pc = "Get_cs" /\ req'[r].pc = "recordHit"
       \/ req[r].pc \in {"recordHit", "recordHit_cs"}

\* C21: the steps of a request answered from the cache change nothing in the
\* store but hits, which the last of them increments by one: the entries
\* (their expiries included), misses and the upstream-health state are as
\* they were, and no upstream call is attempted; the response is 200 with the
\* value found.  So a degraded store goes on serving hits, and its flag
\* becomes healthy only in the step in which a request that missed and called
\* the upstream records the success.
C21_HitChangesOnlyHits ==
    /\ [][ \A r \in Reqs :
             HitStep(r) =>
                 /\ entries' = entries
                 /\ misses' = misses
                 /\ healthState' = healthState
                 /\ hist'.attempts = hist.attempts
                 /\ hits' = IF req[r].pc = "recordHit_cs" THEN hits + 1
                            ELSE hits
                 /\ req[r].pc = "recordHit_cs" =>
                        /\ out'.pc = "done" /\ out'.code = 200
                        /\ out'.calls = 0
                        /\ out'.response = req[r].response ]_vars
    /\ [][ ~apiHealthy /\ apiHealthy' =>
             \E r \in Reqs :
                 /\ Leaves(r, "recordAPISuccess_cs")
                 /\ req[r].calls = 1 /\ OnMissPath(req[r]) ]_vars
    /\ [](\A x \in PastLookup : OnHitPath(x) => x.calls = 0)

\* the last of three requests to answer was served from the cache, the
\* store being degraded by then; it is still degraded and the entry is there
\* with the expiry it had
C21_Witness ==
    /\ Quiescent /\ started = 3
    /\ out.pc = "done" /\ out.outcome = "hit" /\ out.code = 200
    /\ hits = 1 /\ misses = 2
    /\ ~apiHealthy /\ lastAPIError # ""
    /\ out.cacheKey \in DOMAIN entries
    /\ entries[out.cacheKey].ExpiresAt = out.seen.exp

\* C22 as stated: every /health response is a snapshot of one state of the
\* store: its status is "degraded" exactly when its google_api_status is
\* "unhealthy", and it carries a last_api_error only when its status is
\* "degraded".
C22_Original ==
    health.pc = "done" =>
        /\ health.status = "degraded" <=> health.apiStatus = "unhealthy"
        /\ health.lastError # "" => health.status = "degraded"

\* the keys for which Get returns found, and those a sweep would remove
FoundKeys == {k \in DOMAIN entries : CacheGet(k).found}

SweptKeys == DOMAIN entries \ DOMAIN Sweep

\* C23 as stated: at every instant, the instant of an entry's expiry
\* included, stats counts as expired exactly the entries for which Get
\* reports not found, which are exactly those a sweep at that instant would
\* remove; so active_entries is the number of keys for which Get returns
\* found.
C23_Original ==
    /\ GetStats.expired = Cardinality(DOMAIN entries \ FoundKeys)
    /\ GetStats.expired = Cardinality(SweptKeys)
    /\ GetStats.active = Cardinality(FoundKeys)
    /\ DOMAIN entries \ FoundKeys = SweptKeys

\* the goroutines that are about to write cache.entries
EntryWriters ==
    {Pid(r) : r \in {q \in Reqs : req[q].pc = "Set_cs"}}
        \cup {p \in {ReaperPid} : reaper.pc = "sweep"}

\* C24: getStats computes its result in one critical section under the read
\* lock, during which no Set and no sweep is inside its own; the result has
\* total_entries equal to the number of keys in the map at that moment and to
\* active_entries + expired_entries, and none of the three is negative.  The
\* response carries that result whatever Sets and sweeps follow.
C24_StatsAddUp ==
    /\ [][ TakesStats =>
             /\ health'.stats.total = Cardinality(DOMAIN entries)
             /\ health'.stats.total =
                    health'.stats.active + health'.stats.expired
             /\ health'.stats.active >= 0 /\ health'.stats.expired >= 0
             /\ EntryWriters = {} ]_vars
    /\ [][ health.pc \notin {"idle", "done", "getStats", "getStats_cs"}
             => health'.stats = health.stats ]_vars
    /\ [](/\ health.pc = "getStats_cs" => EntryWriters = {}
          /\ health.stats.total = health.stats.active + health.stats.expired
          /\ health.stats.total >= 0
          /\ health.stats.active >= 0 /\ health.stats.expired >= 0)

\* the health handler counted two entries, one active and one expired, and
\* the reaper has removed the expired one since
C24_Witness ==
    /\ health.pc = "done"
    /\ health.stats.total = 2
    /\ health.stats.active = 1 /\ health.stats.expired = 1
    /\ reaper.pc = "wait" /\ reaper.count = 1
    /\ Cardinality(DOMAIN entries) = 1

\* the non-empty lists the upstream has returned for a platform
Fetched(platform) ==
    {x.versions : x \in {y \in hist.responses :
                            y.platform = platform /\ Len(y.versions) > 0}}

\* C25: every entry is stored under the key of a valid platform p and an
\* offset o >= 0 and holds Platform = p, Channel = "stable", a Latest that is
\* the first element of a list the upstream returned for p, and a
\* LatestAccepted whose major is the major of Latest less o.  An entry is
\* created or changed only by the Set of a request that missed, called the
\* upstream once and got a non-empty list.
C25_EntriesWellFormed ==
    /\ [](\A k \in DOMAIN entries :
            LET e == entries[k].Response
                p == KeyPlatform(k)
                o == KeyOffset(k)
            IN  /\ \E i \in 1..Len(k) : k[i] = ":"
                /\ \E q \in ValidPlatforms :
                       Chars(q) = SubSeq(k, 1, Colon(k) - 1)
                /\ isValidPlatform(p) /\ o >= 0
                /\ k = CacheKeyOf(p, o)
                /\ e.Platform = p
                /\ e.Channel = "stable"
                /\ \E versions \in Fetched(p) : e.Latest = versions[1]
                /\ extractMajor(e.LatestAccepted) = extractMajor(e.Latest) - o)
    /\ [][ entries' # entries =>
             \E r \in Reqs :
                 /\ Leaves(r, "Set_cs")
                 /\ req[r].calls = 1
                 /\ req[r].versions \in Fetched(req[r].platform)
                 /\ DOMAIN entries' = DOMAIN entries \cup {req[r].cacheKey}
                 /\ entries'[req[r].cacheKey].Response.Latest =
                        req[r].versions[1] ]_vars

\* an entry for platform mac and offset 2 holds the synthetic version of a
\* negative major, no element of the list having the target major
C25_Witness ==
    /\ CacheKeyOf("mac", 2) \in DOMAIN entries
    /\ entries[CacheKeyOf("mac", 2)].Response =
           [Latest |-> V10, LatestAccepted |-> Synthetic(-1),
            Channel |-> "stable", Platform |-> "mac"]

\* offsets whose numerals begin or end like the digits of a platform name
KeyOffsets == {0, 1, 4, 10, 64, 410, 6410}

\* two pairs of a valid platform and one of these offsets have the same key
\* only when they are the same pair
KeyIsInjective ==
    \A p, q \in ValidPlatforms : \A o, n \in KeyOffsets :
        CacheKeyOf(p, o) = CacheKeyOf(q, n) <=> p = q /\ o = n

\* the default a request without an offset parameter is resolved to
ResolvedDefault == IF IsOffset(env) THEN Atoi(env).val ELSE 10

\* C26: two pairs of a valid platform and an offset >= 0 have the same key
\* exactly when they are the same pair.  The key of a request is that of its
\* platform, win64 when the parameter is absent, and its offset, the resolved
\* default when the parameter is absent; so a request is answered from the
\* cache exactly when a result is stored for its platform and offset, however
\* these were given by it and by the request that stored the result, and it
\* is answered with that result.
C26_KeyInjective ==
    /\ KeyIsInjective
    /\ \A r \in Reqs :
           req[r].pc # "idle" =>
               /\ req[r].platform = IF req[r].platformParam = "" THEN "win64"
                                    ELSE req[r].platformParam
               /\ req[r].offset = IF req[r].offsetParam = <<>>
                                  THEN ResolvedDefault
                                  ELSE Atoi(req[r].offsetParam).val
               /\ req[r].cacheKey = CacheKeyOf(req[r].platform, req[r].offset)
    /\ \A r \in Reqs :
           req[r].pc \notin {"idle", "Get", "Get_cs"} =>
               LET same == {k \in DOMAIN entries :
                               /\ KeyPlatform(k) = req[r].platform
                               /\ KeyOffset(k) = req[r].offset}
               IN  /\ Cardinality(same) <= 1
                   /\ OnHitPath(req[r]) <=> same # {}
                   /\ OnHitPath(req[r]) =>
                          \A k \in same :
                              req[r].response = entries[k].Response

\* a request with platform=win64 and offset=10 has found the entry stored by
\* a request with neither parameter
C26_Witness ==
    /\ env = <<>>
    /\ out.pc = "done" /\ out.outcome = "fresh"
    /\ out.platformParam = "" /\ out.offsetParam = <<>>
    /\ req[1].pc = "recordHit"
    /\ req[1].platformParam = "win64" /\ req[1].offsetParam = <<"1", "0">>
    /\ req[1].response = out.response
    /\ DOMAIN entries = {CacheKeyOf("win64", 10)}

\* the goroutines that are about to call Lock or RLock
Acquiring ==
    {Pid(r) : r \in {q \in Reqs :
                        req[q].pc \in {"Get", "recordHit", "recordMiss",
                                       "recordAPIError", "recordAPISuccess",
                                       "Set"}}}
        \cup {p \in {HealthPid} :
                  health.pc \in {"getStats", "isAPIHealthy", "getAPIStatus"}}
        \cup {p \in {ReaperPid} : reaper.pc = "wait"}

\* the requests that have been answered
Answered == started - Cardinality({r \in Reqs : req[r].pc # "idle"})

\* C27: the lock is held by the goroutines inside a critical section and by
\* no other, by one writer or by readers, and a goroutine about to acquire it
\* does not hold it; a step answers at most one request, a response is
\* written exactly in the step that ends a request, and it is a 400, 404, 500
\* or 200.  With the goroutines scheduled fairly and the upstream calls
\* returning, every request that has arrived is answered, whatever the other
\* requests, the health checks and the reaper do.
C27_EveryRequestAnswered ==
    /\ [](/\ Holders = InCriticalSection
          /\ Acquiring \cap Holders = {}
          /\ Cardinality(mu.writer) <= 1
          /\ mu.writer # {} => mu.readers = {})
    /\ [][ /\ Answered' \in {Answered, Answered + 1}
           /\ Answered' = Answered => out' = out
           /\ Answered' = Answered + 1 =>
                  /\ out'.pc = "done"
                  /\ out'.code \in {400, 404, 500, 200}
                  /\ \A r \in Reqs :
                         req[r].pc # "idle" /\ req'[r].pc = "idle" =>
                             /\ out'.cacheKey = req[r].cacheKey
                             /\ out'.code # 400 ]_vars
    /\ \A r \in Reqs : (req[r].pc # "idle") ~> (req[r].pc = "idle")

\* a request has been answered while the other waits for the write lock, as
\* does the reaper, the health handler holding the read lock
C27_Witness ==
    /\ out.pc = "done" /\ out.code = 200
    /\ \E r \in Reqs : req[r].pc = "recordMiss"
    /\ reaper.pc = "wait" /\ reaper.tick
    /\ mu.readers = {HealthPid}

=============================================================================
